---- MODULE Spec2Model ----
(***************************************************************************)
(* A model of vcf_to_dataframe: the header scan, the sample selection, the *)
(* comment count, the table load and the normalisation pipeline of         *)
(* vcf_to_dataframe(), and the helpers it calls.                           *)
(*                                                                         *)
(* Text is modelled as a sequence of atoms.  An atom is a character        *)
(* ("\t", ":", "=", "0") or a run of characters that no operation of the   *)
(* program looks into ("POS", "rs1", "#CHROM").  A line of the file is the *)
(* atoms up to and including its "\n".                                     *)
(***************************************************************************)
EXTENDS Integers, Sequences, FiniteSets, TLC

VARIABLES
    vcf_file,     \* the file at vcf_path: a sequence of lines
    call,         \* the public operation called and its arguments
    pc,           \* position of the call
    handle,       \* the file handle of the running lines_from_vcf generator
    gen_pos,      \* number of lines the running generator has read
    scans,        \* finished scans: what each read and how it left the handle
    vcf_header,   \* vcf_to_dataframe's vcf_header
    keep_samples, \* vcf_to_dataframe's keep_samples, as it is rebound
    skiprows,     \* vcf_to_dataframe's skiprows
    warned,       \* whether warnings.warn() was called
    loaded,       \* whether pd.read_table() was called
    df,           \* vcf_to_dataframe's df
    result,       \* what the call returned or raised
    arg,          \* argument of a helper applied on its own
    ret           \* what that helper returned

vars == <<vcf_file, call, pc, handle, gen_pos, scans, vcf_header, keep_samples,
          skiprows, warned, loaded, df, result, arg, ret>>

----------------------------------------------------------------------------
(* Bounds of the model. *)

MaxDataLines == 2
MaxInfoLen == 5
MaxChromRows == 3

----------------------------------------------------------------------------
(* Text. *)

Range(s) == {s[i] : i \in 1..Len(s)}

Whitespace == {" ", "\t", "\n", "\r"}

Digits == {"0", "1", "2", "3", "4", "5", "6", "7", "8", "9"}

\* str.split(sep) for a one-character sep: the pieces between the separators,
\* empty pieces kept.
RECURSIVE Split(_, _)
Split(s, sep) ==
    IF \A i \in 1..Len(s) : s[i] # sep
    THEN <<s>>
    ELSE LET i == CHOOSE k \in 1..Len(s) :
                      s[k] = sep /\ \A j \in 1..(k - 1) : s[j] # sep
         IN  <<SubSeq(s, 1, i - 1)>> \o Split(SubSeq(s, i + 1, Len(s)), sep)

\* str.strip(): leading and trailing whitespace removed.
RECURSIVE Strip(_)
Strip(s) ==
    IF s = <<>> THEN s
    ELSE IF Head(s) \in Whitespace THEN Strip(Tail(s))
    ELSE IF s[Len(s)] \in Whitespace THEN Strip(SubSeq(s, 1, Len(s) - 1))
    ELSE s

\* str.replace(old, new) where old is one atom: every occurrence is replaced.
Replace(s, old, new) == [i \in 1..Len(s) |-> IF s[i] = old THEN new ELSE s[i]]

\* str.replace(old, '') where old is one atom: every occurrence is removed.
RECURSIVE Remove(_, _)
Remove(s, old) ==
    IF s = <<>> THEN s
    ELSE IF Head(s) = old THEN Remove(Tail(s), old)
    ELSE <<Head(s)>> \o Remove(Tail(s), old)

\* str.startswith(prefix) where prefix is one atom.
StartsWith(s, prefix) == s # <<>> /\ Head(s) = prefix

\* line.startswith('#'): the atoms whose first character is '#'.
HashAtoms == {"#", "##", "#CHROM"}

IsComment(line) == line # <<>> /\ Head(line) \in HashAtoms

\* str.lower() on the atoms the program lower-cases.
LowerAtom(a) ==
    CASE a = "CHROM"  -> "chrom"
      [] a = "POS"    -> "pos"
      [] a = "ID"     -> "id"
      [] a = "REF"    -> "ref"
      [] a = "ALT"    -> "alt"
      [] a = "QUAL"   -> "qual"
      [] a = "FILTER" -> "filter"
      [] a = "INFO"   -> "info"
      [] a = "FORMAT" -> "format"
      [] a = "ALL"    -> "all"
      [] a = "All"    -> "all"
      [] a = "S1"     -> "s1"
      [] a = "S2"     -> "s2"
      [] a = "S"      -> "s"
      [] a = "#CHROM" -> "#chrom"
      [] OTHER        -> a

Lower(s) == [i \in 1..Len(s) |-> LowerAtom(s[i])]

\* sep.join(pieces)
RECURSIVE Join(_, _)
Join(pieces, sep) ==
    IF pieces = <<>> THEN <<>>
    ELSE IF Len(pieces) = 1 THEN pieces[1]
    ELSE pieces[1] \o <<sep>> \o Join(Tail(pieces), sep)

\* The filter of a sequence, order kept.
RECURSIVE SelectSeqBy(_, _)
SelectSeqBy(s, set) ==
    IF s = <<>> THEN <<>>
    ELSE IF Head(s) \in set THEN <<Head(s)>> \o SelectSeqBy(Tail(s), set)
    ELSE SelectSeqBy(Tail(s), set)

\* Sequences over a set, of length at most n.
SeqsUpTo(set, n) == UNION {[1..k -> set] : k \in 0..n}

----------------------------------------------------------------------------
(* The files and the calls the model runs the program on. *)

\* NaN, the missing value of the table library, and Python's None.
NaN == <<"<NaN>">>

None == <<"<None>">>

Line(fields) == Join(fields, "\t") \o <<"\n">>

FixedFields ==
    << <<"#CHROM">>, <<"POS">>, <<"ID">>, <<"REF">>, <<"ALT">>, <<"QUAL">>,
       <<"FILTER">>, <<"INFO">>, <<"FORMAT">> >>

S1 == <<"S1">>

S2 == <<"S2">>

\* A sample identifier that contains the text #CHROM.
SX == <<"S", "#CHROM">>

HeaderLine(samples) == Line(FixedFields \o samples)

MetaLine == <<"##", "fileformat=VCFv4.1", "\n">>

\* A line whose bytes are not valid text.  Decoding fails when that line is
\* read, as it does line by line for a gzipped file.
BadLine == <<"<0xFF>", "\n">>

Undecodable(line) == "<0xFF>" \in Range(line)

\* The 9 fixed fields of a data line.
Variants ==
    { << <<"1">>, <<"7">>, <<"rs1">>, <<"A">>, <<"G", ",", "T">>, <<".">>,
         <<"PASS">>, <<"AN", "=", "2", ";", "DB">>, <<"GT", ":", "DP">> >>,
      << <<"23">>, <<"3">>, <<"rs2">>, <<"C">>, <<"G">>, <<".">>,
         <<"PASS">>, <<"DB">>, <<"GT", ":", "DP">> >> }

\* The cells of the first and of the second sample column.
Cells1 == { <<"0", "/", "1", ":", "5">>, <<"x", "1">>, <<"x", "x">> }

Cells2 == { <<"0", "/", "1", ":", "5">>, <<"0", "/", "1", ":", "7">> }

DataLines(nsamples) ==
    CASE nsamples = 0 -> {Line(v) : v \in Variants}
      [] nsamples = 1 -> {Line(v \o <<c>>) : v \in Variants, c \in Cells1}
      [] OTHER -> {Line(v \o <<c, d>>) : v \in Variants, c \in Cells1, d \in Cells2}

\* The lines above the data: comments, then the column declaration (or none).
Preambles ==
    {<<>>, <<MetaLine>>, <<BadLine>>, <<MetaLine, MetaLine>>}

Headers == {<<>>, <<S1>>, <<S1, S2>>, <<S1, SX>>}

\* At most one line of data under a column declaration of n samples.
FewData(n) == {<<>>, <<BadLine>>} \cup {<<l>> : l \in DataLines(n)}

\* Every preamble, with and without a column declaration, over few data lines.
ScanFiles ==
    {p \o d : p \in Preambles, d \in FewData(0)}
    \cup
    UNION {{p \o <<HeaderLine(s)>> \o d : p \in Preambles, d \in FewData(Len(s))} :
           s \in Headers}

\* One comment and a column declaration over all the data.
DataFiles ==
    UNION {{<<MetaLine, HeaderLine(s)>> \o d :
                d \in SeqsUpTo(DataLines(Len(s)), MaxDataLines)} :
           s \in {<<>>, <<S1>>, <<S1, S2>>}}

\* keep_samples: None, a string, or a list of strings.
KeepNone == [kind |-> "none", str |-> <<>>, list |-> <<>>]

KeepStr(s) == [kind |-> "str", str |-> s, list |-> <<>>]

KeepList(l) == [kind |-> "list", str |-> <<>>, list |-> l]

KeepChoices ==
    {KeepNone, KeepStr(<<"all">>), KeepStr(<<"All">>), KeepStr(S1), KeepStr(S2),
     KeepStr(SX), KeepStr(<<"nope">>), KeepStr(<<"POS">>),
     KeepList(<<S1, S2>>), KeepList(<<S2, S1>>), KeepList(<<S1, <<"nope">> >>),
     KeepList(<<>>)}

Calls ==
    {[op |-> "available_samples", keep_samples |-> KeepNone,
      keep_format_data |-> FALSE]}
    \cup
    {[op |-> "vcf_to_dataframe", keep_samples |-> k, keep_format_data |-> f] :
        k \in KeepChoices, f \in BOOLEAN}

\* The calls that select samples the data files have, or none.
DataCalls ==
    {[op |-> "vcf_to_dataframe", keep_samples |-> k, keep_format_data |-> f] :
        k \in {KeepNone, KeepStr(<<"all">>), KeepStr(S1), KeepStr(S2),
               KeepList(<<S1, S2>>), KeepList(<<S2, S1>>)},
        f \in BOOLEAN}

NoResult == [status |-> "running", error |-> "", value |-> <<>>]

Returned(v) == [status |-> "returned", error |-> "", value |-> v]

Raised(e) == [status |-> "raised", error |-> e, value |-> <<>>]

NoHeader == [is_none |-> TRUE, fields |-> <<>>]

NoTable == [cols |-> <<>>, rows |-> <<>>, categories |-> <<>>]

----------------------------------------------------------------------------
(* lines_from_vcf and the two scans that consume it. *)

\* GeneratorClose without the close() call: the generator stays suspended
\* inside its with block.
GeneratorCloseSkipped(h) == h

\* generator.close(): GeneratorExit at the yield leaves the with block, which
\* closes the file.
GeneratorClose(h) == "closed"

\* Leaving the with block by exhaustion or by an exception closes the file.
WithExit(h) == "closed"

\* One iteration of `for line in vcf_lines_generator`: what the generator does
\* when resumed after having read n lines.
lines_from_vcf(n) ==
    IF n = Len(vcf_file) THEN "exhausted"
    ELSE IF Undecodable(vcf_file[n + 1]) THEN "raised"
    ELSE "yielded"

\* The list _header_from_vcf returns for the line it stops at.
HeaderFields(line) == Split(Replace(Strip(line), "#CHROM", "CHROM"), "\t")

\* header[9:] of available_samples
available_samples(fields) == SubSeq(fields, 10, Len(fields))

ScanRecord(fn, how, n, h) == [fn |-> fn, ended |-> how, read |-> n, handle |-> h]

Init ==
    /\ \/ vcf_file \in ScanFiles /\ call \in Calls
       \/ vcf_file \in DataFiles /\ call \in DataCalls
    /\ pc = "header"
    /\ handle = "unopened"
    /\ gen_pos = 0
    /\ scans = <<>>
    /\ vcf_header = NoHeader
    /\ keep_samples = call.keep_samples
    /\ skiprows = 0
    /\ warned = FALSE
    /\ loaded = FALSE
    /\ df = NoTable
    /\ result = NoResult
    /\ arg = <<>>
    /\ ret = <<>>

\* isinstance(keep_samples, str) and keep_samples.lower() == 'all'
IsAll(k) == k.kind = "str" /\ Lower(k.str) = <<"all">>

\* What follows `vcf_header = _header_from_vcf(vcf_path)` once it has returned
\* h: available_samples subscripts it, vcf_to_dataframe goes on.
AfterHeader(h) ==
    IF call.op = "available_samples"
    THEN /\ pc' = "done"
         /\ result' = IF h.is_none THEN Raised("TypeError")
                      ELSE Returned(available_samples(h.fields))
         /\ UNCHANGED keep_samples
    ELSE IF pc = "header"
    THEN /\ pc' = IF IsAll(keep_samples) THEN "all" ELSE "parse_samples"
         /\ UNCHANGED <<result, keep_samples>>
    ELSE \* keep_samples = available_samples(vcf_path)
         IF h.is_none
         THEN /\ pc' = "done"
              /\ result' = Raised("TypeError")
              /\ UNCHANGED keep_samples
         ELSE /\ pc' = "parse_samples"
              /\ keep_samples' = KeepList(available_samples(h.fields))
              /\ UNCHANGED result

\* _header_from_vcf, one iteration of its loop: at line 39 of vcf_to_dataframe
\* (pc = "header"), in available_samples, and in the available_samples that
\* line 42 calls (pc = "all").
_header_from_vcf ==
    /\ pc \in {"header", "all"}
    /\ LET out == lines_from_vcf(gen_pos)
           fn == "_header_from_vcf"
       IN  CASE out = "exhausted" ->
                  \* the loop ends and the function returns None
                  /\ handle' = WithExit(handle)
                  /\ gen_pos' = 0
                  /\ scans' = Append(scans,
                                 ScanRecord(fn, out, gen_pos, WithExit(handle)))
                  /\ vcf_header' = IF pc = "header" THEN NoHeader ELSE vcf_header
                  /\ AfterHeader(NoHeader)
             [] out = "raised" ->
                  /\ handle' = WithExit(handle)
                  /\ gen_pos' = 0
                  /\ scans' = Append(scans,
                                 ScanRecord(fn, out, gen_pos + 1, WithExit(handle)))
                  /\ pc' = "done"
                  /\ result' = Raised("UnicodeDecodeError")
                  /\ UNCHANGED <<vcf_header, keep_samples>>
             [] OTHER ->
                  LET line == vcf_file[gen_pos + 1]
                  IN  IF StartsWith(line, "#CHROM")
                      THEN LET h == [is_none |-> FALSE, fields |-> HeaderFields(line)]
                           IN  /\ handle' = GeneratorClose("open")
                               /\ gen_pos' = 0
                               /\ scans' = Append(scans,
                                     ScanRecord(fn, "found", gen_pos + 1,
                                                GeneratorClose("open")))
                               /\ vcf_header' = IF pc = "header" THEN h ELSE vcf_header
                               /\ AfterHeader(h)
                      ELSE /\ handle' = "open"
                           /\ gen_pos' = gen_pos + 1
                           /\ UNCHANGED <<scans, vcf_header, keep_samples, pc, result>>
    /\ UNCHANGED <<vcf_file, call, skiprows, warned, loaded, df, arg, ret>>

\* The samples a truthy sample_list names, as _parse_samples lists them.
SampleList(k) == IF k.kind = "str" THEN <<k.str>> ELSE k.list

\* `if sample_list:`
Truthy(k) == (k.kind = "str" /\ k.str # <<>>) \/ (k.kind = "list" /\ k.list # <<>>)

\* `sample not in vcf_header` for some sample of the list
SomeNotInHeader(l, fields) == \E i \in 1..Len(l) : l[i] \notin Range(fields)

\* Lines 44 to 52 of vcf_to_dataframe: _parse_samples, the warning, usecols.
_parse_samples ==
    /\ pc = "parse_samples"
    /\ IF Truthy(keep_samples) /\ vcf_header.is_none
       THEN \* `sample not in None`
            /\ pc' = "done"
            /\ result' = Raised("TypeError")
            /\ UNCHANGED <<keep_samples, warned>>
       ELSE IF Truthy(keep_samples)
               /\ SomeNotInHeader(SampleList(keep_samples), vcf_header.fields)
       THEN /\ pc' = "done"
            /\ result' = Raised("ValueError: not found in this VCF")
            /\ UNCHANGED <<keep_samples, warned>>
       ELSE LET l == IF Truthy(keep_samples) THEN SampleList(keep_samples) ELSE <<>>
            IN  /\ keep_samples' = KeepList(l)
                /\ warned' = (l = <<>> /\ call.keep_format_data)
                /\ IF vcf_header.is_none
                   THEN \* vcf_header[:9]
                        /\ pc' = "done"
                        /\ result' = Raised("TypeError")
                   ELSE /\ pc' = "count"
                        /\ UNCHANGED result
    /\ UNCHANGED <<vcf_file, call, handle, gen_pos, scans, vcf_header, skiprows,
                   loaded, df, arg, ret>>

\* _count_comment_rows, one iteration of its loop.
_count_comment_rows ==
    /\ pc = "count"
    /\ LET out == lines_from_vcf(gen_pos)
           fn == "_count_comment_rows"
       IN  CASE out = "exhausted" ->
                  /\ handle' = WithExit(handle)
                  /\ gen_pos' = 0
                  /\ scans' = Append(scans,
                                 ScanRecord(fn, out, gen_pos, WithExit(handle)))
                  /\ skiprows' = skiprows
                  /\ pc' = "read_table"
                  /\ UNCHANGED result
             [] out = "raised" ->
                  /\ handle' = WithExit(handle)
                  /\ gen_pos' = 0
                  /\ scans' = Append(scans,
                                 ScanRecord(fn, out, gen_pos + 1, WithExit(handle)))
                  /\ pc' = "done"
                  /\ result' = Raised("UnicodeDecodeError")
                  /\ UNCHANGED skiprows
             [] OTHER ->
                  IF IsComment(vcf_file[gen_pos + 1])
                  THEN /\ handle' = "open"
                       /\ gen_pos' = gen_pos + 1
                       /\ skiprows' = skiprows + 1
                       /\ UNCHANGED <<scans, pc, result>>
                  ELSE /\ handle' = GeneratorClose("open")
                       /\ gen_pos' = 0
                       /\ scans' = Append(scans,
                                     ScanRecord(fn, "found", gen_pos + 1,
                                                GeneratorClose("open")))
                       /\ pc' = "read_table"
                       /\ UNCHANGED <<skiprows, result>>
    /\ UNCHANGED <<vcf_file, call, vcf_header, keep_samples, warned, loaded, df,
                   arg, ret>>

----------------------------------------------------------------------------
(* The table: its columns in order, its rows (each a function of the       *)
(* column names) and the categories of its chrom column.                   *)

Min(a, b) == IF a < b THEN a ELSE b

IndexOf(seq, x) == CHOOSE i \in 1..Len(seq) : seq[i] = x

Col(name) == <<name>>

\* The text of a line without its line terminator, as the table reader sees it.
StripEOL(line) ==
    IF line # <<>> /\ line[Len(line)] = "\n" THEN SubSeq(line, 1, Len(line) - 1)
    ELSE line

\* ReadTable with the column declaration not counted among the skipped lines:
\* one line more is skipped.
ReadTableSkipsOneMore(file, names, usecols, skip) ==
    LET cols == SelectSeqBy(names, Range(usecols))
        data == SubSeq(file, skip + 2, Len(file))
        row(line) ==
            LET fields == Split(StripEOL(line), "\t")
            IN  [c \in Range(cols) |->
                    IF IndexOf(names, c) <= Len(fields)
                    THEN fields[IndexOf(names, c)] ELSE NaN]
    IN  [cols |-> cols,
         rows |-> [i \in 1..Len(data) |-> row(data[i])],
         categories |-> <<>>]

\* pd.read_table(vcf_path, names=names, usecols=usecols, skiprows=skip): the
\* lines after the first skip ones, split on tabs, the columns named by names
\* in file order, of which those in usecols are kept.  Cell text is kept as it
\* is in the file.
ReadTable(file, names, usecols, skip) ==
    LET cols == SelectSeqBy(names, Range(usecols))
        data == SubSeq(file, skip + 1, Len(file))
        row(line) ==
            LET fields == Split(StripEOL(line), "\t")
            IN  [c \in Range(cols) |->
                    IF IndexOf(names, c) <= Len(fields)
                    THEN fields[IndexOf(names, c)] ELSE NaN]
    IN  [cols |-> cols,
         rows |-> [i \in 1..Len(data) |-> row(data[i])],
         categories |-> <<>>]

\* df.rename(columns={col: col.lower() for col in df.columns[:9]})
RenameFixed(t) ==
    LET first == Range(SubSeq(t.cols, 1, Min(9, Len(t.cols))))
        new(c) == IF c \in first THEN Lower(c) ELSE c
        cols == [i \in 1..Len(t.cols) |-> new(t.cols[i])]
    IN  [cols |-> cols,
         rows |-> [i \in 1..Len(t.rows) |->
                      [c \in Range(cols) |-> t.rows[i][t.cols[IndexOf(cols, c)]]]],
         categories |-> t.categories]

\* df.columns[9:]
SampleCols(t) == SubSeq(t.cols, 10, Len(t.cols))

\* GENO_REGEX = ([\d|\.](?:[/|\|][\d|\.])?) : the two character classes.
GenoClass == Digits \cup {"|", "."}

GenoSepClass == {"/", "|"}

\* GENO_REGEX.search(geno): the pattern matches somewhere in geno.  The group
\* after the first character is optional.
GENO_REGEX(geno) ==
    \E i \in 1..Len(geno) :
        /\ geno[i] \in GenoClass
        /\ \/ TRUE
           \/ /\ i + 2 <= Len(geno)
              /\ geno[i + 1] \in GenoSepClass
              /\ geno[i + 2] \in GenoClass

\* _extract_genotype: geno_field.split(':')[0]
_extract_genotype(geno_field) == Split(geno_field, ":")[1]

\* Whether _extract_genotype raises for some cell of the sample columns.
ExtractGenosRaises(t) ==
    \E i \in 1..Len(t.rows) : \E c \in Range(SampleCols(t)) :
        ~GENO_REGEX(_extract_genotype(t.rows[i][c]))

\* _extract_genos with the result of applymap not assigned: the cells stay whole.
ExtractGenosKeepsCells(t) == t

\* _extract_genos: every cell of the sample columns replaced by its genotype.
_extract_genos(t) ==
    [t EXCEPT !.rows =
        [i \in 1..Len(t.rows) |->
            [c \in Range(t.cols) |->
                IF c \in Range(SampleCols(t))
                THEN _extract_genotype(t.rows[i][c]) ELSE t.rows[i][c]]]]

\* The order of first appearance of the elements of a sequence.
RECURSIVE Unique(_)
Unique(s) ==
    IF s = <<>> THEN <<>>
    ELSE LET init == Unique(SubSeq(s, 1, Len(s) - 1))
         IN  IF s[Len(s)] \in Range(init) THEN init ELSE Append(init, s[Len(s)])

RECURSIVE Flatten(_)
Flatten(ss) == IF ss = <<>> THEN <<>> ELSE Head(ss) \o Flatten(Tail(ss))

\* parse_genotypes: dict(zip(genotype_fields, genotype_data)), as the keys in
\* order and the value of each (the last one, for a repeated key).
ZipKeys(row, sample_id) ==
    LET genotype_fields == Split(row[Col("format")], ":")
        genotype_data == Split(row[sample_id], ":")
    IN  Unique(SubSeq(genotype_fields, 1,
                      Min(Len(genotype_fields), Len(genotype_data))))

ZipValue(row, sample_id, key) ==
    LET genotype_fields == Split(row[Col("format")], ":")
        genotype_data == Split(row[sample_id], ":")
        n == Min(Len(genotype_fields), Len(genotype_data))
        last == CHOOSE i \in 1..n :
                    genotype_fields[i] = key
                    /\ \A j \in (i + 1)..n : genotype_fields[j] # key
    IN  genotype_data[last]

\* The numbers the model's text holds, each one atom.
NumberAtoms ==
    <<"0", "1", "2", "3", "4", "5", "6", "7", "8", "9", "10", "11", "12", "13",
      "14", "15", "16", "17", "18", "19", "20", "21", "22", "23", "24">>

IsInt(s) == Len(s) = 1 /\ s[1] \in Range(NumberAtoms)

\* int(s)
IntOf(s) == IndexOf(NumberAtoms, s[1]) - 1

\* The atoms of chromosome names in the order of Python's string comparison.
StringOrder ==
    <<"1", "10", "11", "12", "13", "14", "15", "16", "17", "18", "19", "2", "20",
      "21", "22", "23", "24", "3", "4", "5", "6", "7", "8", "9", "MT", "X", "Y",
      "chr">>

RECURSIVE StringLess(_, _)
StringLess(a, b) ==
    IF b = <<>> THEN FALSE
    ELSE IF a = <<>> THEN TRUE
    ELSE IF Head(a) = Head(b) THEN StringLess(Tail(a), Tail(b))
    ELSE IndexOf(StringOrder, Head(a)) < IndexOf(StringOrder, Head(b))

\* Whether row a sorts before row b by ['chrom', 'pos'] as loaded: pos is a
\* column of numbers, chrom is one if every value of it is a number (numeric
\* is that), and a column of strings otherwise.
SortsBefore(a, b, numeric) ==
    LET ca == a[Col("chrom")]
        cb == b[Col("chrom")]
        less == IF numeric THEN IntOf(ca) < IntOf(cb) ELSE StringLess(ca, cb)
    IN  less \/ (ca = cb /\ IntOf(a[Col("pos")]) < IntOf(b[Col("pos")]))

\* sort_values: a stable sort by SortsBefore.
RECURSIVE SortRows(_, _)
SortRows(rows, numeric) ==
    IF rows = <<>> THEN <<>>
    ELSE LET sorted == SortRows(SubSeq(rows, 1, Len(rows) - 1), numeric)
             r == rows[Len(rows)]
             \* r goes after the last row that does not sort after it
             k == IF \E i \in 1..Len(sorted) : ~SortsBefore(r, sorted[i], numeric)
                  THEN CHOOSE i \in 1..Len(sorted) :
                           /\ ~SortsBefore(r, sorted[i], numeric)
                           /\ \A j \in (i + 1)..Len(sorted) :
                                  SortsBefore(r, sorted[j], numeric)
                  ELSE 0
         IN  SubSeq(sorted, 1, k) \o <<r>> \o SubSeq(sorted, k + 1, Len(sorted))

\* _unfold_genotype_data for a table with at least one sample column: one
\* frame per sample (the fixed columns without format, the genotype fields
\* of that sample, sample_id), concatenated and sorted.
_unfold_genotype_data(t) ==
    LET sample_ids == SampleCols(t)
        kept == SelectSeqBy(t.cols, Range(t.cols) \ ({Col("format")} \cup Range(sample_ids)))
        \* the columns of pd.DataFrame(list(genotypes)) for one sample
        gcols(sid) == Unique(Flatten([i \in 1..Len(t.rows) |-> ZipKeys(t.rows[i], sid)]))
        fcols(sid) == kept \o gcols(sid) \o <<Col("sample_id")>>
        cols == Unique(Flatten([k \in 1..Len(sample_ids) |-> fcols(sample_ids[k])]))
        frow(sid, r) ==
            [c \in Range(cols) |->
                IF c = Col("sample_id") THEN sid
                ELSE IF c \in Range(kept) THEN r[c]
                ELSE IF c \in Range(ZipKeys(r, sid)) THEN ZipValue(r, sid, c)
                ELSE NaN]
        frames == [k \in 1..Len(sample_ids) |->
                      [i \in 1..Len(t.rows) |-> frow(sample_ids[k], t.rows[i])]]
        numeric == \A i \in 1..Len(t.rows) : IsInt(t.rows[i][Col("chrom")])
    IN  [cols |-> cols, rows |-> SortRows(Flatten(frames), numeric),
         categories |-> <<>>]

\* list(range(1, 23)) + ['X', 'Y'], as strings
CanonicalChromosomes ==
    [i \in 1..24 |-> IF i = 23 THEN <<"X">>
                     ELSE IF i = 24 THEN <<"Y">>
                     ELSE <<NumberAtoms[i + 1]>>]

\* The first steps of make_chromosome_series_categorical: the values as
\* strings, 'chr' removed from them if every one starts with it.
ChromosomeStrings(series) ==
    IF \A i \in 1..Len(series) : StartsWith(series[i], "chr")
    THEN [i \in 1..Len(series) |-> Remove(series[i], "chr")]
    ELSE series

\* sorted_chromosomes: the canonical chromosomes found in those values.
sorted_chromosomes(series) ==
    SelectSeqBy(CanonicalChromosomes, Range(ChromosomeStrings(series)))

\* .replace('23', 'X').replace('24', 'Y')
ReplaceSexChromosome(v) ==
    IF v = <<"23">> THEN <<"X">> ELSE IF v = <<"24">> THEN <<"Y">> ELSE v

\* make_chromosome_series_categorical: the values of the returned series (a
\* value outside the categories becomes NaN) and its categories.
make_chromosome_series_categorical(series) ==
    LET categories == sorted_chromosomes(series)
        new_series == ChromosomeStrings(series)
    IN  [values |-> [i \in 1..Len(series) |->
                        LET v == ReplaceSexChromosome(new_series[i])
                        IN  IF v \in Range(categories) THEN v ELSE NaN],
         categories |-> categories]

\* df['chrom'] = make_chromosome_series_categorical(df['chrom'])
TypeChromosomes(t) ==
    LET c == make_chromosome_series_categorical(
                 [i \in 1..Len(t.rows) |-> t.rows[i][Col("chrom")]])
    IN  [cols |-> t.cols,
         rows |-> [i \in 1..Len(t.rows) |->
                      [t.rows[i] EXCEPT ![Col("chrom")] = c.values[i]]],
         categories |-> c.categories]

\* DropDuplicates with the result of drop_duplicates() not assigned.
DropDuplicatesDiscarded(t) == t

\* df.drop_duplicates(): the first of every group of equal rows is kept.
DropDuplicates(t) == [t EXCEPT !.rows = Unique(t.rows)]

\* _info_line_as_dict: `key, value = element.split('=')` succeeds for exactly
\* two pieces; otherwise the element is the key and the value is None.  A
\* later element replaces an earlier one of the same key.
InfoKey(element) ==
    IF Len(Split(element, "=")) = 2 THEN Split(element, "=")[1] ELSE element

InfoValue(element) ==
    IF Len(Split(element, "=")) = 2 THEN Split(element, "=")[2] ELSE None

_info_line_as_dict(info_line) ==
    LET elements == Split(info_line, ";")
        last(k) == CHOOSE i \in 1..Len(elements) :
                       /\ InfoKey(elements[i]) = k
                       /\ \A j \in (i + 1)..Len(elements) : InfoKey(elements[j]) # k
    IN  [k \in {InfoKey(elements[i]) : i \in 1..Len(elements)} |->
            InfoValue(elements[last(k)])]

\* Lines 82 to 85: the info and alt columns decoded.
DecodeInfoAlt(t) ==
    [t EXCEPT !.rows =
        [i \in 1..Len(t.rows) |->
            [t.rows[i] EXCEPT ![Col("info")] = _info_line_as_dict(@),
                              ![Col("alt")] = Split(@, ",")]]]

\* nan_to_None then dot_to_None
NanDotToNone(v) == IF v = NaN \/ v = <<".">> THEN None ELSE v

integer_fields == {Col("DP"), Col("GQ"), Col("RGQ")}

integer_list_fields == {Col("AD"), Col("PL")}

\* Whether int() raises for some value of the integer and integer-list columns.
IntFieldsRaise(t) ==
    \E i \in 1..Len(t.rows) :
        \/ \E c \in integer_fields \cap Range(t.cols) :
               LET v == NanDotToNone(t.rows[i][c])
               IN  v # None /\ ~IsInt(v)
        \/ \E c \in integer_list_fields \cap Range(t.cols) :
               LET v == NanDotToNone(t.rows[i][c])
               IN  v # None /\ \E n \in Range(Split(v, ",")) : ~IsInt(n)

\* Lines 87 to 107: the integer and integer-list columns parsed.  An integer
\* is held as a one-element tuple, an integer list as the tuple of its numbers.
ParseIntFields(t) ==
    [t EXCEPT !.rows =
        [i \in 1..Len(t.rows) |->
            [c \in Range(t.cols) |->
                LET v == t.rows[i][c]
                IN  IF c \in integer_fields
                    THEN IF NanDotToNone(v) = None THEN None ELSE <<IntOf(v)>>
                    ELSE IF c \in integer_list_fields
                    THEN IF NanDotToNone(v) = None THEN None
                         ELSE [k \in 1..Len(Split(v, ",")) |-> IntOf(Split(v, ",")[k])]
                    ELSE v]]]

----------------------------------------------------------------------------
(* vcf_to_dataframe from the table load on. *)

\* Lines 52 to 57: usecols, pd.read_table, the fixed columns renamed.
LoadTable ==
    /\ pc = "read_table"
    /\ loaded' = TRUE
    /\ IF \E i \in (skiprows + 1)..Len(vcf_file) : Undecodable(vcf_file[i])
       THEN /\ pc' = "done"
            /\ result' = Raised("UnicodeDecodeError")
            /\ UNCHANGED df
       ELSE /\ df' = RenameFixed(ReadTable(vcf_file, vcf_header.fields,
                         SubSeq(vcf_header.fields, 1, 9) \o keep_samples.list,
                         skiprows))
            /\ pc' = "genotypes"
            /\ UNCHANGED result
    /\ UNCHANGED <<vcf_file, call, handle, gen_pos, scans, vcf_header, keep_samples,
                   skiprows, warned, arg, ret>>

\* Lines 59 to 71: the genotypes unfolded, or extracted.
Genotypes ==
    /\ pc = "genotypes"
    /\ IF keep_samples.list = <<>>
       THEN /\ pc' = "categorical"
            /\ UNCHANGED <<df, result>>
       ELSE IF call.keep_format_data
       THEN IF SampleCols(df) = <<>>
            THEN \* pd.concat of an empty list
                 /\ pc' = "done"
                 /\ result' = Raised("ValueError: No objects to concatenate")
                 /\ UNCHANGED df
            ELSE /\ df' = _unfold_genotype_data(df)
                 /\ pc' = "categorical"
                 /\ UNCHANGED result
       ELSE IF ExtractGenosRaises(df)
            THEN /\ pc' = "done"
                 /\ result' = Raised("ValueError: does not look like a genotype")
                 /\ UNCHANGED df
            ELSE /\ df' = _extract_genos(df)
                 /\ pc' = "categorical"
                 /\ UNCHANGED result
    /\ UNCHANGED <<vcf_file, call, handle, gen_pos, scans, vcf_header, keep_samples,
                   skiprows, warned, loaded, arg, ret>>

\* Lines 73 to 76: ref and filter become categories (their values stay), chrom
\* becomes an ordered category.
Categorical ==
    /\ pc = "categorical"
    /\ df' = TypeChromosomes(df)
    /\ pc' = "drop_duplicates"
    /\ UNCHANGED <<vcf_file, call, handle, gen_pos, scans, vcf_header, keep_samples,
                   skiprows, warned, loaded, result, arg, ret>>

\* Line 80.
Deduplicate ==
    /\ pc = "drop_duplicates"
    /\ df' = DropDuplicates(df)
    /\ pc' = "decode"
    /\ UNCHANGED <<vcf_file, call, handle, gen_pos, scans, vcf_header, keep_samples,
                   skiprows, warned, loaded, result, arg, ret>>

\* Lines 82 to 109: info and alt decoded, the integer fields parsed, df returned.
Decode ==
    /\ pc = "decode"
    /\ IF IntFieldsRaise(DecodeInfoAlt(df))
       THEN /\ result' = Raised("ValueError: invalid literal for int()")
            /\ UNCHANGED df
       ELSE /\ df' = ParseIntFields(DecodeInfoAlt(df))
            /\ result' = Returned(<<>>)
    /\ pc' = "done"
    /\ UNCHANGED <<vcf_file, call, handle, gen_pos, scans, vcf_header, keep_samples,
                   skiprows, warned, loaded, arg, ret>>

Next ==
    \/ _header_from_vcf
    \/ _parse_samples
    \/ _count_comment_rows
    \/ LoadTable
    \/ Genotypes
    \/ Categorical
    \/ Deduplicate
    \/ Decode

Spec == Init /\ [][Next]_vars

----------------------------------------------------------------------------
(* The helpers applied on their own, to every small input. *)

Idle ==
    /\ vcf_file = <<>>
    /\ call = [op |-> "helper", keep_samples |-> KeepNone, keep_format_data |-> FALSE]
    /\ handle = "unopened"
    /\ gen_pos = 0
    /\ scans = <<>>
    /\ vcf_header = NoHeader
    /\ keep_samples = KeepNone
    /\ skiprows = 0
    /\ warned = FALSE
    /\ loaded = FALSE
    /\ df = NoTable
    /\ result = NoResult
    /\ ret = <<>>

IdleUnchanged ==
    UNCHANGED <<vcf_file, call, handle, gen_pos, scans, vcf_header, keep_samples,
                skiprows, warned, loaded, df, result, arg>>

InfoAtoms == {"A", "B", "=", ";"}

InfoInit ==
    /\ Idle
    /\ pc = "_info_line_as_dict"
    /\ arg \in SeqsUpTo(InfoAtoms, MaxInfoLen)

ApplyInfoLineAsDict ==
    /\ pc = "_info_line_as_dict"
    /\ ret' = _info_line_as_dict(arg)
    /\ pc' = "done"
    /\ IdleUnchanged

SpecInfo == InfoInit /\ [][ApplyInfoLineAsDict]_vars

ChromValues ==
    {<<"1">>, <<"2">>, <<"23">>, <<"X">>, <<"24">>, <<"MT">>,
     <<"chr", "2">>, <<"chr", "23">>, <<"chr", "Y">>}

ChromInit ==
    /\ Idle
    /\ pc = "make_chromosome_series_categorical"
    /\ arg \in SeqsUpTo(ChromValues, MaxChromRows)

ApplyMakeChromosomeSeriesCategorical ==
    /\ pc = "make_chromosome_series_categorical"
    /\ ret' = make_chromosome_series_categorical(arg)
    /\ pc' = "done"
    /\ IdleUnchanged

SpecChrom == ChromInit /\ [][ApplyMakeChromosomeSeriesCategorical]_vars

----------------------------------------------------------------------------
(* What the claims speak of, read off the file itself. *)

HasHeaderLine == \E i \in 1..Len(vcf_file) : StartsWith(vcf_file[i], "#CHROM")

HeaderLineIndex ==
    CHOOSE i \in 1..Len(vcf_file) :
        /\ StartsWith(vcf_file[i], "#CHROM")
        /\ \A j \in 1..(i - 1) : ~StartsWith(vcf_file[j], "#CHROM")

\* The column declaration exists and every line down to it is text.
HeaderReadable ==
    /\ HasHeaderLine
    /\ \A j \in 1..HeaderLineIndex : ~Undecodable(vcf_file[j])

\* The tokens of a line of the file.
Tokens(i) == Split(StripEOL(vcf_file[i]), "\t")

\* The file's sample identifiers: the header tokens after the 9 fixed columns.
FileSamples == SubSeq(Tokens(HeaderLineIndex), 10, Len(Tokens(HeaderLineIndex)))

\* Number of comment lines on top of the file.
LeadingComments ==
    IF \A i \in 1..Len(vcf_file) : IsComment(vcf_file[i]) THEN Len(vcf_file)
    ELSE (CHOOSE i \in 1..Len(vcf_file) :
              /\ ~IsComment(vcf_file[i])
              /\ \A j \in 1..(i - 1) : IsComment(vcf_file[j])) - 1

DataIndexes == (LeadingComments + 1)..Len(vcf_file)

DistinctDataLines == {vcf_file[i] : i \in DataIndexes}

NonCommentIndexes == {i \in 1..Len(vcf_file) : ~IsComment(vcf_file[i])}

Parsing == call.op = "vcf_to_dataframe"

ReturnedTable == Parsing /\ pc = "done" /\ result.status = "returned"

\* The selected samples, once _parse_samples has accepted them.
Selected == Range(keep_samples.list)

CompactMode == ReturnedTable /\ keep_samples.list # <<>> /\ ~call.keep_format_data

UnfoldMode == ReturnedTable /\ keep_samples.list # <<>> /\ call.keep_format_data

ScanSet == {scans[i] : i \in 1..Len(scans)}

----------------------------------------------------------------------------
(* C1 *)

\* The identifiers keep_samples names: none for None, for an empty list and
\* for the word 'all'.
RequestedNames ==
    IF Truthy(call.keep_samples) /\ ~IsAll(call.keep_samples)
    THEN Range(SampleList(call.keep_samples)) ELSE {}

NamesUnknownSample ==
    /\ Parsing
    /\ HeaderReadable
    /\ \E n \in RequestedNames : n \notin Range(FileSamples)

\* C1: a call of vcf_to_dataframe whose keep_samples names an identifier that
\* is not one of the file's sample identifiers never gets past the sample
\* check: no comment count, no table load, and it ends with the unknown-sample
\* ValueError, whatever keep_format_data is.
C1_UnknownSampleFailsBeforeLoad ==
    NamesUnknownSample =>
        /\ ~loaded
        /\ \A sc \in ScanSet : sc.fn # "_count_comment_rows"
        /\ pc \in {"header", "parse_samples", "done"}
        /\ pc = "done" => result = Raised("ValueError: not found in this VCF")

----------------------------------------------------------------------------
(* C2 *)

\* The chrom value of data line i after make_chromosome_series_categorical.
TypedChrom(i) ==
    make_chromosome_series_categorical(
        [j \in 1..(Len(vcf_file) - LeadingComments) |->
            Tokens(LeadingComments + j)[1]]).values[i - LeadingComments]

\* The genotype fields of sample column s on data line i: FORMAT names and
\* the sample's values paired, as far as both go.
GenotypeMapping(i, s) ==
    LET names == Split(Tokens(i)[9], ":")
        values == Split(Tokens(i)[IndexOf(vcf_header.fields, s)], ":")
        n == Min(Len(names), Len(values))
    IN  [k \in {names[j] : j \in 1..n} |->
            values[CHOOSE j \in 1..n :
                       names[j] = k /\ \A m \in (j + 1)..n : names[m] # k]]

\* What a row of the unfolded table holds of data line i and sample s before
\* the decoding: the fixed fields without FORMAT, the sample, its genotype fields.
UnfoldedRowOf(i, s) ==
    <<TypedChrom(i), SubSeq(Tokens(i), 2, 8), s, GenotypeMapping(i, s)>>

SampleIdsAreSelected ==
    \A i \in 1..Len(df.rows) : df.rows[i][Col("sample_id")] \in Selected

\* C2 as stated: in unfold mode the table has (distinct data lines) x
\* (selected samples) rows, each with a selected sample_id.
C2_RowsAreLinesTimesSamples ==
    UnfoldMode =>
        /\ Len(df.rows) = Cardinality(DistinctDataLines) * Cardinality(Selected)
        /\ SampleIdsAreSelected

\* C2 amended: in unfold mode the table has one row per distinct combination
\* of (fixed fields without FORMAT, chromosome as typed, sample, genotype
\* fields) over the data lines and the selected samples: at most (distinct
\* data lines) x (selected samples) rows; every row's sample_id is a selected
\* sample, and every data line has a row for each selected sample.
C2_RowsAreDistinctUnfoldedRows ==
    UnfoldMode =>
        /\ Len(df.rows) =
               Cardinality({UnfoldedRowOf(i, s) : i \in DataIndexes, s \in Selected})
        /\ Len(df.rows) <= Cardinality(DistinctDataLines) * Cardinality(Selected)
        /\ SampleIdsAreSelected
        /\ \A i \in DataIndexes : \A s \in Selected :
               \E k \in 1..Len(df.rows) :
                   /\ df.rows[k][Col("id")] = Tokens(i)[3]
                   /\ df.rows[k][Col("sample_id")] = s

\* Two data lines that differ only in one sample's cell, both samples
\* selected: the other sample's two rows are one.
C2_Witness ==
    /\ UnfoldMode
    /\ Cardinality(Selected) = 2
    /\ Cardinality(DistinctDataLines) = 2
    /\ Len(df.rows) = 3

----------------------------------------------------------------------------
(* C3 *)

SourceIds == {Tokens(i)[3] : i \in NonCommentIndexes}

TableIds == {df.rows[i][Col("id")] : i \in 1..Len(df.rows)}

\* C3: from the table load to the return of a successful parse, the ids of
\* the table are the ids of the file's non-comment lines: no step of the
\* normalisation removes or adds one.
C3_IdsPreserved ==
    (Parsing /\ loaded /\ result.status # "raised") => TableIds = SourceIds

\* A returned unfolded table of two variants and two samples, one variant
\* having lost its chromosome to NaN.
C3_Witness ==
    /\ UnfoldMode
    /\ Cardinality(SourceIds) = 2
    /\ Len(df.rows) = 4
    /\ \E i \in 1..Len(df.rows) : df.rows[i][Col("chrom")] = NaN

----------------------------------------------------------------------------
(* C4 *)

\* C4: available_samples returns the header tokens after the 9th, in order
\* and unmodified, and keep_samples='all' (any case) expands to that list.
C4_AvailableSamplesAreHeaderTokens ==
    HeaderReadable =>
        /\ (call.op = "available_samples" /\ pc = "done")
               => result = Returned(FileSamples)
        /\ (Parsing /\ IsAll(call.keep_samples) /\ pc = "parse_samples")
               => keep_samples = KeepList(FileSamples)

----------------------------------------------------------------------------
(* C5 *)

\* The sample columns the table is loaded with, in file order.
SelectedColumns == SelectSeqBy(available_samples(vcf_header.fields), Selected)

\* What a row of the compact table holds of data line i before the decoding:
\* the fixed fields, the chromosome as typed, and the first segment of each
\* selected sample's cell.
CompactRowOf(i) ==
    <<TypedChrom(i), SubSeq(Tokens(i), 2, 9),
      [k \in 1..Len(SelectedColumns) |->
          _extract_genotype(Tokens(i)[IndexOf(vcf_header.fields, SelectedColumns[k])])]>>

\* C5 as stated: in compact mode the table has as many rows as the file has
\* distinct data lines.
C5_RowsAreDistinctLines ==
    CompactMode => Len(df.rows) = Cardinality(DistinctDataLines)

\* C5 amended: in compact mode the table has one row per distinct combination
\* of (fixed fields, chromosome as typed, primary genotype token of each
\* selected sample) over the data lines, so at most as many rows as the file
\* has distinct data lines.
C5_RowsAreDistinctCompactRows ==
    CompactMode =>
        /\ Len(df.rows) = Cardinality({CompactRowOf(i) : i \in DataIndexes})
        /\ Len(df.rows) <= Cardinality(DistinctDataLines)

\* Two data lines that differ only after the genotype of a selected sample.
C5_Witness ==
    /\ CompactMode
    /\ Selected = {S1, S2}
    /\ Cardinality(DistinctDataLines) = 2
    /\ Len(df.rows) = 1

----------------------------------------------------------------------------
(* C6, under SpecChrom *)

\* The values the claim normalises to: a leading 'chr' stripped when every
\* value has it, 23 read as X and 24 as Y.
NormalChromosomes(series) ==
    LET stripped == IF \A i \in 1..Len(series) : StartsWith(series[i], "chr")
                    THEN [i \in 1..Len(series) |-> Tail(series[i])]
                    ELSE series
    IN  [i \in 1..Len(series) |->
            IF stripped[i] = <<"23">> THEN <<"X">>
            ELSE IF stripped[i] = <<"24">> THEN <<"Y">>
            ELSE stripped[i]]

\* C6: the categories are the canonical chromosomes that occur in the data
\* after normalisation, in canonical order, and every such chromosome keeps
\* its value.
C6_CategoriesAreChromosomesPresent ==
    pc = "done" =>
        /\ ret.categories =
               SelectSeqBy(CanonicalChromosomes, Range(NormalChromosomes(arg)))
        /\ \A i \in 1..Len(arg) :
               NormalChromosomes(arg)[i] \in Range(CanonicalChromosomes)
                   => ret.values[i] = NormalChromosomes(arg)[i]

----------------------------------------------------------------------------
(* C7 *)

\* C7: once _header_from_vcf has read the whole file without finding the
\* column declaration, the call is over, with the malformed-file error.
C7_NoHeaderIsMalformedFileError ==
    (\E sc \in ScanSet : sc.fn = "_header_from_vcf" /\ sc.ended = "exhausted")
        => pc = "done" /\ result = Raised("MalformedFileError")

----------------------------------------------------------------------------
(* C8 *)

Alleles == Digits \cup {"."}

\* A genotype call: one allele, or two, joined by '/' or '|' or not at all.
IsGenotypeCall(g) ==
    \/ Len(g) = 1 /\ g[1] \in Alleles
    \/ Len(g) = 2 /\ g[1] \in Alleles /\ g[2] \in Alleles
    \/ Len(g) = 3 /\ g[1] \in Alleles /\ g[2] \in {"/", "|"} /\ g[3] \in Alleles

\* C8: every cell of the sample columns of a table returned in compact mode
\* is a genotype call.
C8_CompactCellsAreGenotypeCalls ==
    CompactMode =>
        \A i \in 1..Len(df.rows) : \A c \in Range(SampleCols(df)) :
            IsGenotypeCall(df.rows[i][c])

----------------------------------------------------------------------------
(* C9, under SpecInfo *)

InfoTokens(info_line) == Split(info_line, ";")

HasEquals(token) == "=" \in Range(token)

FirstEquals(token) ==
    CHOOSE i \in 1..Len(token) :
        token[i] = "=" /\ \A j \in 1..(i - 1) : token[j] # "="

\* The key of a token: all of a flag, the text before the first '=' otherwise.
KeyOf(token) ==
    IF HasEquals(token) THEN SubSeq(token, 1, FirstEquals(token) - 1) ELSE token

\* The value of a token: None for a flag, the text after the key's '=' otherwise.
ValueOf(token) ==
    IF HasEquals(token) THEN SubSeq(token, FirstEquals(token) + 1, Len(token))
    ELSE None

\* Every token has a key: it is not empty and does not start with '='.
TokensHaveKeys(info_line) ==
    \A i \in 1..Len(InfoTokens(info_line)) :
        InfoTokens(info_line)[i] # <<>> /\ InfoTokens(info_line)[i][1] # "="

\* C9: for an INFO string whose tokens all have a key, the mapping has one key
\* per distinct token key (the flag itself, or the text before the first '='),
\* and a key that one token alone has maps to that token's value: None for a
\* flag, the text after the key's '=' otherwise.
C9_InfoKeysAndValues ==
    (pc = "done" /\ TokensHaveKeys(arg)) =>
        LET tokens == InfoTokens(arg)
        IN  /\ DOMAIN ret = {KeyOf(tokens[i]) : i \in 1..Len(tokens)}
            /\ \A i \in 1..Len(tokens) :
                   (\A j \in 1..Len(tokens) :
                        j # i => KeyOf(tokens[j]) # KeyOf(tokens[i]))
                   => ret[KeyOf(tokens[i])] = ValueOf(tokens[i])

----------------------------------------------------------------------------
(* C10 *)

\* The line a scan must stop at: the first line that is not text or that ends
\* the scan, the last line if there is none.
StopsScan(fn, line) ==
    \/ Undecodable(line)
    \/ fn = "_header_from_vcf" /\ StartsWith(line, "#CHROM")
    \/ fn = "_count_comment_rows" /\ ~IsComment(line)

LastLineRead(fn) ==
    IF \E i \in 1..Len(vcf_file) : StopsScan(fn, vcf_file[i])
    THEN CHOOSE i \in 1..Len(vcf_file) :
             /\ StopsScan(fn, vcf_file[i])
             /\ \A j \in 1..(i - 1) : ~StopsScan(fn, vcf_file[j])
    ELSE Len(vcf_file)

\* C10: the handle is open only inside a running scan; every finished scan
\* left it closed and read no line after the one that ended it.
C10_HandleClosedAfterEveryScan ==
    /\ handle = "open" => pc \in {"header", "all", "count"} /\ gen_pos > 0
    /\ \A sc \in ScanSet :
           /\ sc.handle = "closed"
           /\ sc.read = LastLineRead(sc.fn)

\* Three scans of one call (the header, the header again for 'all', the
\* comment count), each closed before the end of the file.
C10_Witness ==
    /\ Len(scans) = 3
    /\ \A sc \in ScanSet : sc.ended = "found" /\ sc.read < Len(vcf_file)
    /\ handle = "closed"

====
